---- MODULE Spec2Model ----
(***************************************************************************)
(* Oversized-transaction assembly of the astrolabe SDK:                    *)
(*   createComplexBufferedTransaction  (src/complexBufferedTransaction.ts) *)
(*   createComplexTransaction          (src/complexTransaction.ts)         *)
(*   createProposeVoteExecuteTransaction (src/unnamed/part_002)            *)
(* One call of one of the three functions runs against a ledger that is    *)
(* read through rpc.  Every suspension point (await of an rpc read) ends   *)
(* an action.                                                              *)
(***************************************************************************)
EXTENDS Integers, Sequences, FiniteSets, TLC

(***************************************************************************)
(* Program constants                                                       *)
(***************************************************************************)
CHUNK == 900
HEADER_SIZE == 56
PUBKEY_SIZE == 32
MaxAttempts == 256
explicitParamsCount == 4
\* the per-envelope limit the size check compares with (compiledSize > 1232)
EnvelopeBudget == 1232

(***************************************************************************)
(* Bounds of the model                                                     *)
(***************************************************************************)
MaxChunks == 2
MaxRun == 3
MaxStatic == 3
MaxLookups == 2
ManyAccounts == 40

(***************************************************************************)
(* Addresses are numbers.  Static accounts are 1..MaxStatic, a lookup      *)
(* table has the address 100 or 200 and its i-th entry is the address      *)
(* table + 1 + i; derived addresses live in their own ranges.              *)
(***************************************************************************)
TableKeys == {100, 200}
systemProgram == 11
smartAccountSettings == 500
signer == 600
feePayer == 700

Min(a, b) == IF a < b THEN a ELSE b

RECURSIVE Concat(_)
\* the sequences of ss one after the other
Concat(ss) == IF ss = <<>> THEN <<>> ELSE Head(ss) \o Concat(Tail(ss))

WithoutMask(n) == n

\* n & 0xff on a JS number holding an integer
And0xff(n) == n % 256

\* new Uint8Array(list): every element is stored modulo 256
Uint8ArrayOf(s) == [j \in DOMAIN s |-> s[j] % 256]

AllSlots == 0 .. (MaxAttempts - 1)

\* getProgramDerivedAddress over (settings, "transaction_buffer", signer, idx & 0xff)
deriveBufferPda(idx) == 1000 + And0xff(idx)

currentTransactionIndex(settings) == settings.transactionIndex

\* settings.data.transactionIndex + 1n
nextTransactionIndex(settings) == settings.transactionIndex + 1

deriveTransactionPda(transactionIndex) == 2000 + transactionIndex

deriveProposalPda(transactionIndex) == 3000 + transactionIndex

\* the generated u8 encoders are opaque: a value that is no u8 is either
\* rejected or encoded, a u8 is always encoded
U8EncoderOutcomes(v) == IF v \in 0 .. 255 THEN {"ok"} ELSE {"ok", "range_error"}

(***************************************************************************)
(* Buffer Chunker: lines 131-136 of createComplexBufferedTransaction       *)
(***************************************************************************)
\* Uint8Array.subarray(begin, end), 0-based, end exclusive
subarray(buf, begin, end) == SubSeq(buf, begin + 1, Min(end, Len(buf)))

ChunkEndShort(i, len) == Min(i + CHUNK - 1, len)

\* Math.min(i + CHUNK, finalBuffer.length)
ChunkEnd(i, len) == Min(i + CHUNK, len)

ChunkLoopInclusive(i, len) == i <= len

\* loop condition i < finalBuffer.length
ChunkLoopContinues(i, len) == i < len

RECURSIVE chunkLoop(_, _, _)
chunkLoop(buf, i, acc) ==
  IF ChunkLoopContinues(i, Len(buf))
  THEN chunkLoop(buf, i + CHUNK, Append(acc, subarray(buf, i, ChunkEnd(i, Len(buf)))))
  ELSE acc

chunksOf(buf) == chunkLoop(buf, 0, <<>>)

sha256OfFirstChunk(buf) == [digestOf |-> SubSeq(buf, 1, Min(CHUNK, Len(buf)))]

\* crypto.subtle.digest('SHA-256', finalBuffer): a perfect hash of the bytes
sha256(buf) == [digestOf |-> buf]

(***************************************************************************)
(* Conversion of the decoded native message to the smart-account message   *)
(***************************************************************************)
convertInstructionsSwapped(instructions) ==
  [j \in DOMAIN instructions |->
     [programIdIndex |-> instructions[j].programAddressIndex,
      accountIndexes |-> Uint8ArrayOf(instructions[j].data),
      data |-> Uint8ArrayOf(instructions[j].accountIndices)]]

convertInstructions(instructions) ==
  [j \in DOMAIN instructions |->
     [programIdIndex |-> instructions[j].programAddressIndex,
      accountIndexes |-> Uint8ArrayOf(instructions[j].accountIndices),
      data |-> Uint8ArrayOf(instructions[j].data)]]

convertLookupsSwapped(lookups) ==
  [j \in DOMAIN lookups |->
     [accountKey |-> lookups[j].accountKey,
      writableIndexes |-> Uint8ArrayOf(lookups[j].readonlyIndexes),
      readonlyIndexes |-> Uint8ArrayOf(lookups[j].writableIndexes)]]

convertLookups(lookups) ==
  [j \in DOMAIN lookups |->
     [accountKey |-> lookups[j].accountKey,
      writableIndexes |-> Uint8ArrayOf(lookups[j].writableIndexes),
      readonlyIndexes |-> Uint8ArrayOf(lookups[j].readonlyIndexes)]]

smartAccountMessageClamped(dec, lookups) ==
  [numSigners |-> dec.header.numSignerAccounts,
   numWritableSigners |->
     IF dec.header.numSignerAccounts < dec.header.numReadonlySignerAccounts THEN 0
     ELSE dec.header.numSignerAccounts - dec.header.numReadonlySignerAccounts,
   numWritableNonSigners |->
     IF Len(dec.staticAccounts) < dec.header.numSignerAccounts
                                    + dec.header.numReadonlyNonSignerAccounts THEN 0
     ELSE Len(dec.staticAccounts) - dec.header.numSignerAccounts
            - dec.header.numReadonlyNonSignerAccounts,
   accountKeys |-> dec.staticAccounts,
   instructions |-> convertInstructions(dec.instructions),
   addressTableLookups |-> convertLookups(lookups)]

\* createComplexBufferedTransaction and createComplexTransaction
smartAccountMessageOf(dec, lookups) ==
  [numSigners |-> dec.header.numSignerAccounts,
   numWritableSigners |-> dec.header.numSignerAccounts - dec.header.numReadonlySignerAccounts,
   numWritableNonSigners |-> Len(dec.staticAccounts) - dec.header.numSignerAccounts
                               - dec.header.numReadonlyNonSignerAccounts,
   accountKeys |-> dec.staticAccounts,
   instructions |-> convertInstructions(dec.instructions),
   addressTableLookups |-> convertLookups(lookups)]

\* createProposeVoteExecuteTransaction
pveSmartAccountMessageOf(dec) ==
  [numSigners |-> 1,
   numWritableSigners |-> 1,
   numWritableNonSigners |-> Len(dec.staticAccounts) - 1,
   accountKeys |-> dec.staticAccounts,
   instructions |-> convertInstructions(dec.instructions),
   addressTableLookups |-> <<>>]

\* the recomputed writable counts are negative or exceed the account keys
InconsistentCounts(msg) ==
  \/ msg.numWritableSigners \notin 0 .. Len(msg.accountKeys)
  \/ msg.numWritableNonSigners \notin 0 .. Len(msg.accountKeys)

\* getSmartAccountTransactionMessageEncoder().encode(smartAccountMessage): the
\* encoder rejects a message whose recomputed counts are inconsistent
MessageEncoderOutcomes(msg) ==
  IF InconsistentCounts(msg) THEN {"InvariantViolation"} ELSE {"ok"}

(***************************************************************************)
(* The smart-account message on the wire: three u8 counts, then the        *)
(* account keys, the instructions and the lookups, each list behind a one  *)
(* byte length; the empty message is [0, 0, 0, 0, 0, 0].                   *)
(***************************************************************************)
\* the 32 bytes of an address
addressBytes(a) ==
  [j \in 1 .. PUBKEY_SIZE |->
     IF j = 1 THEN a % 256 ELSE IF j = 2 THEN (a \div 256) % 256 ELSE 0]

u16Bytes(n) == <<n % 256, (n \div 256) % 256>>

encodeInstruction(ix) ==
  <<ix.programIdIndex, Len(ix.accountIndexes)>> \o ix.accountIndexes
    \o u16Bytes(Len(ix.data)) \o ix.data

encodeLookup(l) ==
  addressBytes(l.accountKey)
    \o <<Len(l.writableIndexes)>> \o l.writableIndexes
    \o <<Len(l.readonlyIndexes)>> \o l.readonlyIndexes

\* getSmartAccountTransactionMessageEncoder().encode(msg)
encodeMessage(msg) ==
  <<msg.numSigners, msg.numWritableSigners, msg.numWritableNonSigners>>
    \o <<Len(msg.accountKeys)>>
    \o Concat([j \in DOMAIN msg.accountKeys |-> addressBytes(msg.accountKeys[j])])
    \o <<Len(msg.instructions)>>
    \o Concat([j \in DOMAIN msg.instructions |-> encodeInstruction(msg.instructions[j])])
    \o <<Len(msg.addressTableLookups)>>
    \o Concat([j \in DOMAIN msg.addressTableLookups |->
                 encodeLookup(msg.addressTableLookups[j])])

decodeAddress(bytes, pos) == bytes[pos] + 256 * bytes[pos + 1]

\* the bytes bytes[pos] .. bytes[pos + n - 1]
bytesAt(bytes, pos, n) == [j \in 1 .. n |-> bytes[pos + j - 1]]

RECURSIVE decodeAddresses(_, _, _)
decodeAddresses(bytes, pos, n) ==
  IF n = 0 THEN <<>>
  ELSE <<decodeAddress(bytes, pos)>> \o decodeAddresses(bytes, pos + PUBKEY_SIZE, n - 1)

\* the instruction that starts at pos, and the position behind it
decodeInstruction(bytes, pos) ==
  LET numAccounts == bytes[pos + 1]
      dataAt == pos + 2 + numAccounts
      dataLen == bytes[dataAt] + 256 * bytes[dataAt + 1]
  IN  [value |-> [programIdIndex |-> bytes[pos],
                  accountIndexes |-> bytesAt(bytes, pos + 2, numAccounts),
                  data |-> bytesAt(bytes, dataAt + 2, dataLen)],
       next |-> dataAt + 2 + dataLen]

RECURSIVE decodeInstructions(_, _, _)
decodeInstructions(bytes, pos, n) ==
  IF n = 0 THEN [value |-> <<>>, next |-> pos]
  ELSE LET first == decodeInstruction(bytes, pos)
           rest == decodeInstructions(bytes, first.next, n - 1)
       IN  [value |-> <<first.value>> \o rest.value, next |-> rest.next]

\* the lookup that starts at pos, and the position behind it
decodeLookup(bytes, pos) ==
  LET numWritable == bytes[pos + PUBKEY_SIZE]
      readonlyAt == pos + PUBKEY_SIZE + 1 + numWritable
      numReadonly == bytes[readonlyAt]
  IN  [value |-> [accountKey |-> decodeAddress(bytes, pos),
                  writableIndexes |-> bytesAt(bytes, pos + PUBKEY_SIZE + 1, numWritable),
                  readonlyIndexes |-> bytesAt(bytes, readonlyAt + 1, numReadonly)],
       next |-> readonlyAt + 1 + numReadonly]

RECURSIVE decodeLookups(_, _, _)
decodeLookups(bytes, pos, n) ==
  IF n = 0 THEN [value |-> <<>>, next |-> pos]
  ELSE LET first == decodeLookup(bytes, pos)
           rest == decodeLookups(bytes, first.next, n - 1)
       IN  [value |-> <<first.value>> \o rest.value, next |-> rest.next]

\* getSmartAccountTransactionMessageDecoder().decode(bytes)
decodeMessage(bytes) ==
  LET numKeys == bytes[4]
      instructionsAt == 5 + PUBKEY_SIZE * numKeys
      instructions == decodeInstructions(bytes, instructionsAt + 1, bytes[instructionsAt])
      lookups == decodeLookups(bytes, instructions.next + 1, bytes[instructions.next])
  IN  [numSigners |-> bytes[1], numWritableSigners |-> bytes[2],
       numWritableNonSigners |-> bytes[3],
       accountKeys |-> decodeAddresses(bytes, 5, numKeys),
       instructions |-> instructions.value,
       addressTableLookups |-> lookups.value,
       consumed |-> lookups.next - 1]

(***************************************************************************)
(* Lookup tables on the ledger                                             *)
(***************************************************************************)
\* Math.floor((data.length - HEADER_SIZE) / PUBKEY_SIZE)
totalAddressesOf(dataLength) == (dataLength - HEADER_SIZE) \div PUBKEY_SIZE

\* the 32 bytes at HEADER_SIZE + index * PUBKEY_SIZE of table `key`
TableEntry(key, index) == key + 1 + index

(***************************************************************************)
(* Inputs of one call: the parameters, the decoded inner message, the      *)
(* bytes the generated encoder yields, and the ledger behind rpc.          *)
(***************************************************************************)
Fns == {"buffered", "complex", "pve"}

\* the encoding of a message without accounts, instructions and lookups:
\* new Uint8Array([0, 0, 0, 0, 0, 0])
EmptyMessageLen == 6

Header(ns, nrs, nrns) ==
  [numSignerAccounts |-> ns, numReadonlySignerAccounts |-> nrs,
   numReadonlyNonSignerAccounts |-> nrns]

NoTables == [k \in TableKeys |-> -1]

DefaultInput ==
  [fn |-> "buffered", bufferIndex |-> 0, accountIndex |-> 0,
   smartAccountPdaBump |-> 255, hasInner |-> TRUE, inputTokenMint |-> FALSE,
   inputTokenProgram |-> FALSE, backendFeeAccount |-> FALSE,
   lookups |-> <<>>, header |-> Header(1, 0, 1), nStatic |-> 2,
   msgLen |-> EmptyMessageLen,
   occupied |-> {}, tables |-> NoTables, transactionIndex |-> 0, threshold |-> 1]

\* lengths of the encoded message around every multiple of CHUNK; no encoded
\* message is shorter than the empty one
MsgLens ==
  {n \in {k * CHUNK + d : k \in 0 .. MaxChunks, d \in {-1, 0, 1, 450}} :
     n >= EmptyMessageLen} \cup {EmptyMessageLen}

ChunkInputs == {[DefaultInput EXCEPT !.msgLen = n] : n \in MsgLens}

BufferIndexes == {0, 5, 254, 255, 259, -1}

\* r consecutive slots, wrapping around, starting at slot b
Run(b, r) == {(b + j) % 256 : j \in 0 .. (r - 1)}

OccupiedSets ==
  {Run(b, r) : b \in {0, 5, 254}, r \in 0 .. MaxRun}
    \cup {AllSlots} \cup {AllSlots \ {f} : f \in {4, 255}} \cup {{0, 2}, {255, 1}}

ProbeInputs ==
  {[DefaultInput EXCEPT !.bufferIndex = b, !.occupied = o] :
     b \in BufferIndexes, o \in OccupiedSets}

U8Samples == {0, 1, 255, 256, -1}

U8Inputs ==
  {[DefaultInput EXCEPT !.fn = f, !.accountIndex = a, !.smartAccountPdaBump = p,
                        !.msgLen = n] :
     f \in Fns, a \in U8Samples, p \in U8Samples, n \in {EmptyMessageLen, CHUNK + 1}}

HeaderInputs ==
  {[DefaultInput EXCEPT !.fn = f, !.nStatic = s, !.header = Header(ns, nrs, nrns)] :
     f \in Fns, s \in 0 .. MaxStatic, ns \in 0 .. MaxStatic,
     nrs \in 0 .. MaxStatic, nrns \in 0 .. MaxStatic}

Lookup(key, w, r) == [accountKey |-> key, writableIndexes |-> w, readonlyIndexes |-> r]

LookupChoices ==
  {Lookup(100, <<0>>, <<1>>), Lookup(100, <<10>>, <<>>), Lookup(100, <<9, 2>>, <<3, 0>>),
   Lookup(200, <<>>, <<2>>), Lookup(200, <<1>>, <<3>>), Lookup(200, <<>>, <<>>)}

LookupLists ==
  UNION {[1 .. n -> LookupChoices] : n \in 0 .. MaxLookups}

\* data length of each table account, -1 when the account does not exist
TableStates ==
  {[k \in TableKeys |-> IF k = 100 THEN a ELSE b] :
     a \in {-1, HEADER_SIZE + 10 * PUBKEY_SIZE, HEADER_SIZE + 10 * PUBKEY_SIZE + 31},
     b \in {-1, HEADER_SIZE + 3 * PUBKEY_SIZE, 40}}

LookupInputs ==
  {[DefaultInput EXCEPT !.fn = f, !.lookups = l, !.tables = t] :
     f \in {"buffered", "complex"}, l \in LookupLists, t \in TableStates}

MiscInputs ==
  {[DefaultInput EXCEPT !.fn = f, !.hasInner = h, !.inputTokenMint = m,
                        !.inputTokenProgram = p, !.backendFeeAccount = a,
                        !.transactionIndex = x, !.threshold = th] :
     f \in Fns, h \in BOOLEAN, m \in BOOLEAN, p \in BOOLEAN, a \in BOOLEAN,
     x \in {0, 7}, th \in {1, 2}}

\* an inner message with many static accounts, its encoding longer than one
\* envelope
LargeInputs ==
  {[DefaultInput EXCEPT !.fn = f, !.nStatic = s, !.msgLen = CHUNK + 450] :
     f \in Fns, s \in {2, ManyAccounts}}

Inputs ==
  ChunkInputs \cup ProbeInputs \cup U8Inputs \cup HeaderInputs \cup LookupInputs
    \cup MiscInputs \cup LargeInputs

\* the data of the inner instruction: len bytes of a fixed pattern
InstructionData(len) == [j \in 1 .. len |-> (7 * (j - 1) + 3) % 256]

\* the inner message with one instruction of dataLen bytes of data
DecodedWith(in, dataLen) ==
  [header |-> in.header,
   staticAccounts |-> [j \in 1 .. in.nStatic |-> j],
   instructions |->
     IF in.nStatic >= 1
     THEN << [programAddressIndex |-> in.nStatic - 1, accountIndices |-> <<0>>,
              data |-> InstructionData(dataLen)] >>
     ELSE <<>>]

\* the conversion the called function applies
MessageOf(in, dec) ==
  IF in.fn = "pve" THEN pveSmartAccountMessageOf(dec)
  ELSE smartAccountMessageOf(dec, in.lookups)

\* getCompiledTransactionMessageDecoder().decode(innerTransactionBytes): the
\* instruction data is as long as it takes for the smart-account encoding of
\* the message to have in.msgLen bytes (no data when that is too short)
DecodedOf(in) ==
  LET shortest == Len(encodeMessage(MessageOf(in, DecodedWith(in, 0))))
  IN  DecodedWith(in, IF in.msgLen > shortest THEN in.msgLen - shortest ELSE 0)

\* what the generated encoder yields for the converted message
EncoderOutputOf(in) ==
  LET msg == MessageOf(in, DecodedOf(in))
  IN  IF InconsistentCounts(msg) THEN <<>> ELSE encodeMessage(msg)

(***************************************************************************)
(* State                                                                   *)
(***************************************************************************)
VARIABLES
  fn,                \* the exported function that was called
  pc,                \* position in that function
  status,            \* "running", "returned" or "threw"
  error,             \* the error thrown, "" while there is none
  params,            \* bufferIndex, accountIndex, smartAccountPdaBump, addressTableLookups, ...
  decoded,           \* decodeTransactionMessage(innerTransactionBytes)
  encoderOutput,     \* what getSmartAccountTransactionMessageEncoder().encode yields
  rpc,               \* the ledger: settings, buffer accounts, lookup tables
  nextIndex, transactionPda, proposalPda,
  smartAccountMessage,
  finalBuffer, finalBufferSize, finalBufferHash, chunks,
  chosenBufferIndex, transactionBufferPda, attempts, probed,
  createBufferTx, extendTxs, createFromBufferTx, executeTx,
  executeMsg, proposeTx, voteTx,
  lookupPos,         \* position of the `for (const lookup of addressTableLookups)` loop
  addressesByLookupTableAddress,
  resultAccounts,
  result,
  assemblies,        \* the calls of createComplexBufferedTransaction that run concurrently
  wire,              \* the reading of input bytes: caller, bytes, what the native decoder is handed
  ledger             \* the records of the smart-account program and the envelopes submitted

inputVars == <<fn, params, decoded, encoderOutput, rpc>>
settingsVars == <<nextIndex, transactionPda, proposalPda, smartAccountMessage>>
chunkVars == <<finalBuffer, finalBufferSize, finalBufferHash, chunks>>
probeVars == <<chosenBufferIndex, transactionBufferPda, attempts, probed>>
envelopeVars ==
  <<createBufferTx, extendTxs, createFromBufferTx, executeTx, executeMsg,
    proposeTx, voteTx>>
lookupVars == <<lookupPos, addressesByLookupTableAddress, resultAccounts>>

vars ==
  <<fn, pc, status, error, params, decoded, encoderOutput, rpc,
    nextIndex, transactionPda, proposalPda, smartAccountMessage,
    finalBuffer, finalBufferSize, finalBufferHash, chunks,
    chosenBufferIndex, transactionBufferPda, attempts, probed,
    createBufferTx, extendTxs, createFromBufferTx, executeTx,
    executeMsg, proposeTx, voteTx, lookupPos, addressesByLookupTableAddress,
    resultAccounts, result, assemblies, wire, ledger>>

otherVars == <<assemblies, wire, ledger>>

\* compileTransaction(message): the envelope of a transaction message
compileTransaction(instructions) == [payer |-> feePayer, instructions |-> instructions]

\* the byte arrays the data of an instruction carries
payloadLength(ix) ==
  IF ix.name = "createTransactionBuffer" THEN 32 + Len(ix.buffer)
  ELSE IF ix.name = "extendTransactionBuffer" THEN Len(ix.buffer)
  ELSE IF ix.name = "createTransaction" THEN Len(ix.transactionMessage)
  ELSE 0

\* the addresses an instruction's account list puts among the static accounts
\* of the compiled message (an account referenced through a lookup table is
\* not among them)
staticAddressesOf(ix) ==
  IF "accounts" \in DOMAIN ix
  THEN {ix.accounts[j].address :
          j \in {m \in 1 .. Len(ix.accounts) :
                   "lookupTableAddress" \notin DOMAIN ix.accounts[m]}}
  ELSE {}

RECURSIVE sumPayload(_)
sumPayload(ixs) == IF ixs = <<>> THEN 0 ELSE payloadLength(Head(ixs)) + sumPayload(Tail(ixs))

\* compileTransaction(message).messageBytes.length is at least: the blockhash
\* (32), every distinct static address (32 each, the fee payer included) and
\* the byte arrays of the instruction data
messageBytesLength(envelope) ==
  32 + 32 * Cardinality({envelope.payer} \cup
                          UNION {staticAddressesOf(envelope.instructions[j]) :
                                   j \in 1 .. Len(envelope.instructions)})
     + sumPayload(envelope.instructions)

\* an envelope that has not been built
NotBuilt == [payer |-> 0, instructions |-> <<>>]
NoMessage == [numSigners |-> -1]
NoResult == [returned |-> FALSE]
NoHash == [digestOf |-> <<>>]

\* a ledger without transaction and proposal records, nothing submitted yet
NoRecords ==
  [transactions |-> {}, proposals |-> {}, approvals |-> {}, executed |-> {},
   submitted |-> 0, failed |-> {}]

InitWith(in) ==
  /\ fn = in.fn
  /\ pc = "fetchSettings"
  /\ status = "running"
  /\ error = ""
  /\ params = [bufferIndex |-> in.bufferIndex, accountIndex |-> in.accountIndex,
               smartAccountPdaBump |-> in.smartAccountPdaBump,
               innerTransactionBytes |-> in.hasInner,
               inputTokenMint |-> in.inputTokenMint,
               inputTokenProgram |-> in.inputTokenProgram,
               backendFeeAccount |-> in.backendFeeAccount,
               addressTableLookups |-> in.lookups]
  /\ decoded = DecodedOf(in)
  /\ encoderOutput = EncoderOutputOf(in)
  /\ rpc = [transactionIndex |-> in.transactionIndex, threshold |-> in.threshold,
            buffers |-> in.occupied, tables |-> in.tables]
  /\ nextIndex = 0 /\ transactionPda = 0 /\ proposalPda = 0
  /\ smartAccountMessage = NoMessage
  /\ finalBuffer = <<>> /\ finalBufferSize = 0 /\ finalBufferHash = NoHash
  /\ chunks = <<>>
  /\ chosenBufferIndex = 0 /\ transactionBufferPda = 0 /\ attempts = 0
  /\ probed = <<>>
  /\ createBufferTx = NotBuilt /\ extendTxs = <<>> /\ createFromBufferTx = NotBuilt
  /\ executeTx = NotBuilt /\ proposeTx = NotBuilt /\ voteTx = NotBuilt
  /\ executeMsg = <<>>
  /\ lookupPos = 0
  /\ addressesByLookupTableAddress = [k \in {} |-> <<>>]
  /\ resultAccounts = <<>>
  /\ result = NoResult

Init == (\E in \in Inputs : InitWith(in)) /\ assemblies = <<>> /\ wire = <<>>
          /\ ledger = NoRecords

Throw(e) == /\ status' = "threw" /\ error' = e /\ pc' = "done"

(***************************************************************************)
(* Instructions of the generated client, by their arguments                *)
(***************************************************************************)
Account(a, role) == [address |-> a, role |-> role]

getCreateTransactionBufferInstruction(buf, idx, acct, hash, size, chunk) ==
  [name |-> "createTransactionBuffer", transactionBuffer |-> buf, bufferIndex |-> idx,
   accountIndex |-> acct, finalBufferHash |-> hash, finalBufferSize |-> size,
   buffer |-> chunk]

getExtendTransactionBufferInstruction(buf, chunk) ==
  [name |-> "extendTransactionBuffer", transactionBuffer |-> buf, buffer |-> chunk]

getCreateTransactionFromBufferInstruction(tx, buf, acct, bump) ==
  [name |-> "createTransactionFromBuffer", transaction |-> tx, transactionBuffer |-> buf,
   accountIndex |-> acct, accountBump |-> bump]

getCreateTransactionInstruction(tx, acct, bump, message) ==
  [name |-> "createTransaction", transaction |-> tx, accountIndex |-> acct,
   accountBump |-> bump, transactionMessage |-> message]

getCreateProposalInstruction(proposal, transactionIndex) ==
  [name |-> "createProposal", proposal |-> proposal, transactionIndex |-> transactionIndex]

getApproveProposalInstruction(proposal, who) ==
  [name |-> "approveProposal", proposal |-> proposal, signer |-> who]

getExecuteTransactionInstruction(proposal, tx, who) ==
  [name |-> "executeTransaction",
   accounts |-> <<Account(smartAccountSettings, "READONLY"), Account(proposal, "WRITABLE"),
                  Account(tx, "READONLY"), Account(who, "READONLY_SIGNER")>>]

getCloseTransactionBufferInstruction(buf, who) ==
  [name |-> "closeTransactionBuffer", transactionBuffer |-> buf, creator |-> who]

getCloseTransactionInstruction(proposal, tx) ==
  [name |-> "closeTransaction", proposal |-> proposal, transaction |-> tx]

(***************************************************************************)
(* createComplexBufferedTransaction                                        *)
(***************************************************************************)
\* lines 75-115: settings, derived addresses, conversion, encoding
BufferedFetchSettings ==
  /\ fn = "buffered" /\ pc = "fetchSettings"
  /\ UNCHANGED otherVars
  /\ nextIndex' = nextTransactionIndex(rpc)
  /\ transactionPda' = deriveTransactionPda(nextIndex')
  /\ proposalPda' = deriveProposalPda(nextIndex')
  /\ smartAccountMessage' = smartAccountMessageOf(decoded, params.addressTableLookups)
  /\ \E o \in MessageEncoderOutcomes(smartAccountMessage') :
       IF o = "ok"
       THEN /\ pc' = "chunk" /\ UNCHANGED <<status, error>>
       ELSE Throw(o)
  /\ UNCHANGED <<inputVars, chunkVars, probeVars, envelopeVars, lookupVars, result>>

\* lines 121-153: size and digest, the chunks, the first candidate slot
BufferedChunk ==
  /\ fn = "buffered" /\ pc = "chunk"
  /\ UNCHANGED otherVars
  /\ finalBuffer' = encoderOutput
  /\ finalBufferSize' = Len(finalBuffer')
  /\ finalBufferHash' = sha256(finalBuffer')
  /\ chunks' = chunksOf(finalBuffer')
  /\ chosenBufferIndex' = And0xff(params.bufferIndex)
  /\ transactionBufferPda' = deriveBufferPda(chosenBufferIndex')
  /\ attempts' = 0
  /\ pc' = "probe"
  /\ UNCHANGED <<inputVars, settingsVars, probed, envelopeVars, lookupVars, result,
                 status, error>>

\* rpc.getAccountInfo(pda).value of a buffer account
BufferAccountExists(pda) == \E idx \in rpc.buffers : deriveBufferPda(idx) = pda

SkipBufferIndex(idx) == And0xff(idx + 2)

\* (chosenBufferIndex + 1) & 0xff
NextBufferIndex(idx) == And0xff(idx + 1)

\* lines 154-156: the probed slot is free, break
ProbeFree ==
  /\ fn = "buffered" /\ pc = "probe"
  /\ UNCHANGED otherVars
  /\ attempts < MaxAttempts
  /\ ~BufferAccountExists(transactionBufferPda)
  /\ probed' = Append(probed, transactionBufferPda)
  /\ pc' = "createBuffer"
  /\ UNCHANGED <<inputVars, settingsVars, chunkVars, chosenBufferIndex,
                 transactionBufferPda, attempts, envelopeVars, lookupVars, result,
                 status, error>>

\* lines 154-158: the probed slot is occupied, try the next index
ProbeOccupied ==
  /\ fn = "buffered" /\ pc = "probe"
  /\ UNCHANGED otherVars
  /\ attempts < MaxAttempts
  /\ BufferAccountExists(transactionBufferPda)
  /\ probed' = Append(probed, transactionBufferPda)
  /\ chosenBufferIndex' = NextBufferIndex(chosenBufferIndex)
  /\ transactionBufferPda' = deriveBufferPda(chosenBufferIndex')
  /\ attempts' = attempts + 1
  /\ UNCHANGED <<inputVars, settingsVars, chunkVars, envelopeVars, lookupVars, result,
                 pc, status, error>>

\* line 154: attempts reached 256, the loop ends
ProbeExhausted ==
  /\ fn = "buffered" /\ pc = "probe"
  /\ UNCHANGED otherVars
  /\ ~(attempts < MaxAttempts)
  /\ pc' = "createBuffer"
  /\ UNCHANGED <<inputVars, settingsVars, chunkVars, probeVars, envelopeVars,
                 lookupVars, result, status, error>>

\* lines 161-185: create_transaction_buffer with the first slice
BufferedCreateBuffer ==
  /\ fn = "buffered" /\ pc = "createBuffer"
  /\ UNCHANGED otherVars
  /\ \E o \in U8EncoderOutcomes(params.accountIndex) :
       IF o = "ok"
       THEN /\ createBufferTx' = compileTransaction(
                 <<getCreateTransactionBufferInstruction(transactionBufferPda,
                     chosenBufferIndex, params.accountIndex, finalBufferHash,
                     finalBufferSize, chunks[1])>>)
            /\ pc' = "extend"
            /\ UNCHANGED <<status, error>>
       ELSE /\ Throw("range_error")
            /\ UNCHANGED createBufferTx
  /\ UNCHANGED <<inputVars, settingsVars, chunkVars, probeVars, extendTxs,
                 createFromBufferTx, executeTx, executeMsg, proposeTx, voteTx,
                 lookupVars, result>>

\* lines 187-203: one extend_transaction_buffer envelope per remaining slice
BufferedExtend ==
  /\ fn = "buffered" /\ pc = "extend"
  /\ UNCHANGED otherVars
  /\ extendTxs' = [j \in 1 .. (Len(chunks) - 1) |->
                     compileTransaction(
                       <<getExtendTransactionBufferInstruction(transactionBufferPda,
                                                               chunks[j + 1])>>)]
  /\ pc' = "validate"
  /\ UNCHANGED <<inputVars, settingsVars, chunkVars, probeVars, createBufferTx,
                 createFromBufferTx, executeTx, executeMsg, proposeTx, voteTx,
                 lookupVars, result, status, error>>

\* lines 211-217: validate u8 values
BufferedValidate ==
  /\ fn = "buffered" /\ pc = "validate"
  /\ UNCHANGED otherVars
  /\ IF params.accountIndex < 0 \/ params.accountIndex > 255
     THEN Throw("Invalid accountIndex")
     ELSE IF params.smartAccountPdaBump < 0 \/ params.smartAccountPdaBump > 255
          THEN Throw("Invalid smartAccountPdaBump")
          ELSE /\ pc' = "createFromBuffer" /\ UNCHANGED <<status, error>>
  /\ UNCHANGED <<inputVars, settingsVars, chunkVars, probeVars, envelopeVars,
                 lookupVars, result>>

proposeBeforeMaterialize(createFromBufferIx, createProposalIx, approveIx) ==
  <<createProposalIx, createFromBufferIx, approveIx>>

\* line 282: appendTransactionMessageInstructions([createFromBufferIx,
\* createProposalIx, approveIx], tx)
createFromBufferStages(createFromBufferIx, createProposalIx, approveIx) ==
  <<createFromBufferIx, createProposalIx, approveIx>>

\* lines 219-307: materialize + propose + approve, then execute + close
BufferedCreateFromBuffer ==
  /\ fn = "buffered" /\ pc = "createFromBuffer"
  /\ UNCHANGED otherVars
  /\ createFromBufferTx' = compileTransaction(
       createFromBufferStages(
         getCreateTransactionFromBufferInstruction(transactionPda, transactionBufferPda,
           And0xff(params.accountIndex), And0xff(params.smartAccountPdaBump)),
         getCreateProposalInstruction(proposalPda, nextIndex),
         getApproveProposalInstruction(proposalPda, signer)))
  /\ executeMsg' = <<getExecuteTransactionInstruction(proposalPda, transactionPda, signer),
                     getCloseTransactionBufferInstruction(transactionBufferPda, signer)>>
  /\ IF Len(params.addressTableLookups) > 0
     THEN /\ pc' = "lookups" /\ lookupPos' = 1
     ELSE /\ pc' = "compile" /\ UNCHANGED lookupPos
  /\ UNCHANGED <<inputVars, settingsVars, chunkVars, probeVars, createBufferTx,
                 extendTxs, executeTx, proposeTx, voteTx,
                 addressesByLookupTableAddress, resultAccounts, result, status, error>>

\* lines 316-324: every address the table data holds
tableAddresses(key, dataLength) ==
  [j \in 1 .. totalAddressesOf(dataLength) |-> TableEntry(key, j - 1)]

\* lines 310-326: one lookup table is fetched
BufferedLookup ==
  /\ fn = "buffered" /\ pc = "lookups"
  /\ UNCHANGED otherVars
  /\ LET lookup == params.addressTableLookups[lookupPos]
         dataLength == rpc.tables[lookup.accountKey]
     IN  IF dataLength < 0
         THEN UNCHANGED addressesByLookupTableAddress
         ELSE addressesByLookupTableAddress' =
                [k \in DOMAIN addressesByLookupTableAddress \cup {lookup.accountKey} |->
                   IF k = lookup.accountKey
                   THEN tableAddresses(k, dataLength)
                   ELSE addressesByLookupTableAddress[k]]
  /\ IF lookupPos < Len(params.addressTableLookups)
     THEN /\ lookupPos' = lookupPos + 1 /\ pc' = "lookups"
     ELSE /\ lookupPos' = lookupPos /\ pc' = "compile"
  /\ UNCHANGED <<inputVars, settingsVars, chunkVars, probeVars, envelopeVars,
                 resultAccounts, result, status, error>>

\* compressTransactionMessageUsingAddressLookupTables: a non-signer account
\* found in a table is referenced through that table
compressAccount(acc, tables) ==
  IF /\ acc.role \in {"READONLY", "WRITABLE"}
     /\ \E k \in DOMAIN tables : \E j \in 1 .. Len(tables[k]) : tables[k][j] = acc.address
  THEN [address |-> acc.address, role |-> acc.role,
        lookupTableAddress |->
          CHOOSE k \in DOMAIN tables : \E j \in 1 .. Len(tables[k]) : tables[k][j] = acc.address]
  ELSE acc

compressInstruction(ix, tables) ==
  IF ix.name = "executeTransaction"
  THEN [ix EXCEPT !.accounts = [j \in DOMAIN ix.accounts |->
                                  compressAccount(ix.accounts[j], tables)]]
  ELSE ix

compressTransactionMessageUsingAddressLookupTables(msg, tables) ==
  [j \in DOMAIN msg |-> compressInstruction(msg[j], tables)]

\* lines 327-342: the execute envelope and the result
approveAlone(createFromBuffer) ==
  [createFromBuffer EXCEPT !.instructions = SubSeq(@, Len(@), Len(@))]

\* line 338: approveTx: createFromBufferTx
approveTxOf(createFromBuffer) == createFromBuffer

BufferedReturn ==
  /\ fn = "buffered" /\ pc = "compile"
  /\ UNCHANGED otherVars
  /\ executeMsg' = IF Len(params.addressTableLookups) > 0
                   THEN compressTransactionMessageUsingAddressLookupTables(
                          executeMsg, addressesByLookupTableAddress)
                   ELSE executeMsg
  /\ executeTx' = compileTransaction(executeMsg')
  /\ result' = [createBufferTx |-> <<createBufferTx>> \o extendTxs,
                createFromBufferTx |-> createFromBufferTx,
                approveTx |-> approveTxOf(createFromBufferTx),
                executeTx |-> executeTx',
                transactionPda |-> transactionPda,
                proposalPda |-> proposalPda]
  /\ status' = "returned" /\ pc' = "done"
  /\ UNCHANGED <<inputVars, settingsVars, chunkVars, probeVars, createBufferTx,
                 extendTxs, createFromBufferTx, proposeTx, voteTx, lookupVars, error>>

(***************************************************************************)
(* createComplexTransaction                                                *)
(***************************************************************************)
\* lines 136-208: input check, settings, derived addresses, conversion, encoding
ComplexFetchSettings ==
  /\ fn = "complex" /\ pc = "fetchSettings"
  /\ UNCHANGED otherVars
  /\ IF ~params.innerTransactionBytes
     THEN /\ Throw("innerTransactionBytes is required")
          /\ UNCHANGED settingsVars
     ELSE /\ nextIndex' = nextTransactionIndex(rpc)
          /\ transactionPda' = deriveTransactionPda(nextIndex')
          /\ proposalPda' = deriveProposalPda(nextIndex')
          /\ smartAccountMessage' = smartAccountMessageOf(decoded, params.addressTableLookups)
          /\ \E o \in MessageEncoderOutcomes(smartAccountMessage') :
               IF o = "ok"
               THEN /\ pc' = "build" /\ UNCHANGED <<status, error>>
               ELSE Throw(o)
  /\ UNCHANGED <<inputVars, chunkVars, probeVars, envelopeVars, lookupVars, result>>

\* lines 286-337: approve, and the fee account creation when all three fee
\* parameters are given
anyFeeParameter(p) == p.inputTokenMint \/ p.inputTokenProgram \/ p.backendFeeAccount

\* line 291: inputTokenMint && params.inputTokenProgram && params.backendFeeAccount
allFeeParameters(p) == p.inputTokenMint /\ p.inputTokenProgram /\ p.backendFeeAccount

voteByTwoMembers(proposal, withFeeAccount) ==
  <<getApproveProposalInstruction(proposal, signer),
    getApproveProposalInstruction(proposal, feePayer)>>

voteInstructions(proposal, withFeeAccount) ==
  IF withFeeAccount
  THEN <<getApproveProposalInstruction(proposal, signer),
         [name |-> "createAssociatedTokenAccount", payer |-> feePayer]>>
  ELSE <<getApproveProposalInstruction(proposal, signer)>>

\* lines 406-415: the role of the static account at position idx (0-based)
staticRoleWithoutOffset(idx, hdr, total) ==
  LET numSignersInner == hdr.numSignerAccounts
      numWritableSignersInner == numSignersInner - hdr.numReadonlySignerAccounts
      numWritableNonSignersInner == total - numSignersInner - hdr.numReadonlyNonSignerAccounts
  IN  IF idx < numSignersInner
      THEN IF idx < numWritableSignersInner THEN "WRITABLE" ELSE "READONLY"
      ELSE IF idx < numWritableNonSignersInner THEN "WRITABLE" ELSE "READONLY"

staticRole(idx, hdr, total) ==
  LET numSignersInner == hdr.numSignerAccounts
      numWritableSignersInner == numSignersInner - hdr.numReadonlySignerAccounts
      numWritableNonSignersInner == total - numSignersInner - hdr.numReadonlyNonSignerAccounts
  IN  IF idx < numSignersInner
      THEN IF idx < numWritableSignersInner THEN "WRITABLE" ELSE "READONLY"
      ELSE IF idx - numSignersInner < numWritableNonSignersInner
           THEN "WRITABLE" ELSE "READONLY"

\* lines 398-403: the lookup table accounts themselves, read-only
tableAccounts(lookups) ==
  [j \in DOMAIN lookups |-> Account(lookups[j].accountKey, "READONLY")]

\* lines 405-415: the static accounts in order
staticAccountRefs(dec) ==
  [j \in DOMAIN dec.staticAccounts |->
     Account(dec.staticAccounts[j],
             staticRole(j - 1, dec.header, Len(dec.staticAccounts)))]

\* lines 398-415: what resultAccounts holds before the tables are resolved
unresolvedAccounts(lookups, dec) == tableAccounts(lookups) \o staticAccountRefs(dec)

\* lines 218-415: the propose and vote envelopes, the unresolved trailing accounts
ComplexBuild ==
  /\ fn = "complex" /\ pc = "build"
  /\ UNCHANGED otherVars
  /\ \E o \in U8EncoderOutcomes(params.smartAccountPdaBump) :
       IF o = "ok"
       THEN /\ proposeTx' = compileTransaction(
                 <<getCreateTransactionInstruction(transactionPda, 0,
                     params.smartAccountPdaBump, encoderOutput),
                   getCreateProposalInstruction(proposalPda, nextIndex)>>)
            /\ voteTx' = compileTransaction(voteInstructions(proposalPda, allFeeParameters(params)))
            /\ resultAccounts' = unresolvedAccounts(params.addressTableLookups, decoded)
            /\ IF Len(params.addressTableLookups) > 0
               THEN /\ pc' = "resolve" /\ lookupPos' = 1
               ELSE /\ pc' = "assemble" /\ UNCHANGED lookupPos
            /\ UNCHANGED <<status, error>>
       ELSE /\ Throw("range_error")
            /\ UNCHANGED <<proposeTx, voteTx, resultAccounts, lookupPos>>
  /\ UNCHANGED <<inputVars, settingsVars, chunkVars, probeVars, createBufferTx,
                 extendTxs, createFromBufferTx, executeTx, executeMsg,
                 addressesByLookupTableAddress, result>>

readonlyThenWritable(lookup) ==
  [j \in 1 .. Len(lookup.readonlyIndexes) |->
     [index |-> lookup.readonlyIndexes[j], role |-> "READONLY"]]
  \o [j \in 1 .. Len(lookup.writableIndexes) |->
        [index |-> lookup.writableIndexes[j], role |-> "WRITABLE"]]

\* lines 438-443: the writable indexes, then the readonly indexes
requestedIndexes(lookup) ==
  [j \in 1 .. Len(lookup.writableIndexes) |->
     [index |-> lookup.writableIndexes[j], role |-> "WRITABLE"]]
  \o [j \in 1 .. Len(lookup.readonlyIndexes) |->
        [index |-> lookup.readonlyIndexes[j], role |-> "READONLY"]]

\* line 433: if (index >= totalAddresses) throw
IndexOutOfBounds(index, totalAddresses) == index >= totalAddresses

\* lines 418-445: one lookup table is fetched and its requested indexes resolved
ComplexResolve ==
  /\ fn = "complex" /\ pc = "resolve"
  /\ UNCHANGED otherVars
  /\ LET lookup == params.addressTableLookups[lookupPos]
         dataLength == rpc.tables[lookup.accountKey]
         totalAddresses == totalAddressesOf(dataLength)
         req == requestedIndexes(lookup)
         bad == {j \in 1 .. Len(req) : IndexOutOfBounds(req[j].index, totalAddresses)}
         \* the requests resolved before the first one that throws
         done == IF bad = {} THEN Len(req)
                 ELSE (CHOOSE j \in bad : \A m \in bad : j <= m) - 1
         pushed == [j \in 1 .. done |->
                      Account(TableEntry(lookup.accountKey, req[j].index), req[j].role)]
     IN  IF dataLength < 0
         THEN /\ Throw("ALT not found")
              /\ UNCHANGED <<resultAccounts, lookupPos>>
         ELSE /\ resultAccounts' = resultAccounts \o pushed
              /\ IF bad # {}
                 THEN /\ Throw("ALT index OOB")
                      /\ UNCHANGED lookupPos
                 ELSE /\ UNCHANGED <<status, error>>
                      /\ IF lookupPos < Len(params.addressTableLookups)
                         THEN /\ lookupPos' = lookupPos + 1 /\ pc' = "resolve"
                         ELSE /\ lookupPos' = lookupPos /\ pc' = "assemble"
  /\ UNCHANGED <<inputVars, settingsVars, chunkVars, probeVars, envelopeVars,
                 addressesByLookupTableAddress, result>>

\* lines 447-501: the execute envelope and the result
ComplexAssemble ==
  /\ fn = "complex" /\ pc = "assemble"
  /\ UNCHANGED otherVars
  /\ LET executeTransactionInstruction ==
           getExecuteTransactionInstruction(proposalPda, transactionPda, signer)
         explicitParams == SubSeq(executeTransactionInstruction.accounts, 1,
                                  explicitParamsCount)
     IN  executeMsg' =
           <<[executeTransactionInstruction EXCEPT
                !.accounts = explicitParams \o resultAccounts],
             getCloseTransactionInstruction(proposalPda, transactionPda)>>
  /\ executeTx' = compileTransaction(executeMsg')
  /\ result' = [proposeTransactionBuffer |-> proposeTx,
                voteTransactionBuffer |-> voteTx,
                executeTransactionBuffer |-> executeTx',
                transactionPda |-> transactionPda,
                proposalPda |-> proposalPda,
                transactionIndex |-> nextIndex]
  /\ status' = "returned" /\ pc' = "done"
  /\ UNCHANGED <<inputVars, settingsVars, chunkVars, probeVars, createBufferTx,
                 extendTxs, createFromBufferTx, proposeTx, voteTx, lookupVars, error>>

(***************************************************************************)
(* createProposeVoteExecuteTransaction                                     *)
(***************************************************************************)
\* lines 61-133: input check, settings, derived addresses, conversion, encoding
PveFetchSettings ==
  /\ fn = "pve" /\ pc = "fetchSettings"
  /\ UNCHANGED otherVars
  /\ IF ~params.innerTransactionBytes
     THEN /\ Throw("Either innerInstructions or innerTransactionBytes must be provided")
          /\ UNCHANGED settingsVars
     ELSE /\ nextIndex' = nextTransactionIndex(rpc)
          /\ transactionPda' = deriveTransactionPda(nextIndex')
          /\ proposalPda' = deriveProposalPda(nextIndex')
          /\ smartAccountMessage' = pveSmartAccountMessageOf(decoded)
          /\ \E o \in MessageEncoderOutcomes(smartAccountMessage') :
               IF o = "ok"
               THEN /\ pc' = "build" /\ UNCHANGED <<status, error>>
               ELSE Throw(o)
  /\ UNCHANGED <<inputVars, chunkVars, probeVars, envelopeVars, lookupVars, result>>

\* lines 140-208: all four instructions in one envelope
PveBuild ==
  /\ fn = "pve" /\ pc = "build"
  /\ UNCHANGED otherVars
  /\ \E o \in U8EncoderOutcomes(params.smartAccountPdaBump) :
       IF o = "ok"
       THEN /\ resultAccounts' = [j \in DOMAIN decoded.staticAccounts |->
                                    Account(decoded.staticAccounts[j], "WRITABLE")]
            /\ LET executeTransactionInstruction ==
                     getExecuteTransactionInstruction(proposalPda, transactionPda, signer)
               IN  executeMsg' =
                     <<getCreateTransactionInstruction(transactionPda, 0,
                         params.smartAccountPdaBump, encoderOutput),
                       getCreateProposalInstruction(proposalPda, nextIndex),
                       getApproveProposalInstruction(proposalPda, signer),
                       [executeTransactionInstruction EXCEPT
                          !.accounts = executeTransactionInstruction.accounts
                                         \o resultAccounts']>>
            /\ result' = [transactionBuffer |-> compileTransaction(executeMsg'),
                          transactionPda |-> transactionPda,
                          proposalPda |-> proposalPda,
                          transactionIndex |-> nextIndex]
            /\ status' = "returned" /\ error' = error /\ pc' = "done"
       ELSE /\ Throw("range_error")
            /\ UNCHANGED <<resultAccounts, executeMsg, result>>
  /\ UNCHANGED <<inputVars, settingsVars, chunkVars, probeVars, createBufferTx,
                 extendTxs, createFromBufferTx, executeTx, proposeTx, voteTx,
                 lookupPos, addressesByLookupTableAddress>>

Next ==
  \/ BufferedFetchSettings
  \/ BufferedChunk
  \/ ProbeFree
  \/ ProbeOccupied
  \/ ProbeExhausted
  \/ BufferedCreateBuffer
  \/ BufferedExtend
  \/ BufferedValidate
  \/ BufferedCreateFromBuffer
  \/ BufferedLookup
  \/ BufferedReturn
  \/ ComplexFetchSettings
  \/ ComplexBuild
  \/ ComplexResolve
  \/ ComplexAssemble
  \/ PveFetchSettings
  \/ PveBuild

Spec == Init /\ [][Next]_vars

(***************************************************************************)
(* The smart-account program on the ledger.  It applies an envelope as a   *)
(* whole or not at all: a transaction record is created for the index      *)
(* after the counter of the settings account, a proposal for an existing   *)
(* transaction record, an approval once per member, and execute requires   *)
(* as many approvals as the threshold of the settings account.             *)
(***************************************************************************)
OnLedger(r, l) == [rpc |-> r, ledger |-> l, ok |-> TRUE]

Rejected(st) == [st EXCEPT !.ok = FALSE]

ApprovalsOf(l, proposal) == {m \in {signer, feePayer} : <<proposal, m>> \in l.approvals}

\* one instruction on the records; the instructions on buffer accounts, the
\* closing of records and the fee account leave these records alone
applyInstruction(st, ix) ==
  IF ~st.ok THEN st
  ELSE IF ix.name \in {"createTransaction", "createTransactionFromBuffer"}
  THEN IF /\ ix.transaction = deriveTransactionPda(st.rpc.transactionIndex + 1)
          /\ ix.transaction \notin st.ledger.transactions
       THEN [st EXCEPT !.rpc.transactionIndex = @ + 1,
                       !.ledger.transactions = @ \cup {ix.transaction}]
       ELSE Rejected(st)
  ELSE IF ix.name = "createProposal"
  THEN IF /\ deriveTransactionPda(ix.transactionIndex) \in st.ledger.transactions
          /\ ix.proposal = deriveProposalPda(ix.transactionIndex)
          /\ ix.proposal \notin st.ledger.proposals
       THEN [st EXCEPT !.ledger.proposals = @ \cup {ix.proposal}]
       ELSE Rejected(st)
  ELSE IF ix.name = "approveProposal"
  THEN IF /\ ix.proposal \in st.ledger.proposals
          /\ <<ix.proposal, ix.signer>> \notin st.ledger.approvals
       THEN [st EXCEPT !.ledger.approvals = @ \cup {<<ix.proposal, ix.signer>>}]
       ELSE Rejected(st)
  ELSE IF ix.name = "executeTransaction"
  THEN LET proposal == ix.accounts[2].address
           transaction == ix.accounts[3].address
       IN  IF /\ proposal \in st.ledger.proposals
              /\ transaction \in st.ledger.transactions
              /\ transaction \notin st.ledger.executed
              /\ Cardinality(ApprovalsOf(st.ledger, proposal)) >= st.rpc.threshold
           THEN [st EXCEPT !.ledger.executed = @ \cup {transaction}]
           ELSE Rejected(st)
  ELSE st

RECURSIVE applyInstructions(_, _)
applyInstructions(st, ixs) ==
  IF ixs = <<>> THEN st
  ELSE applyInstructions(applyInstruction(st, Head(ixs)), Tail(ixs))

applyEnvelope(r, l, envelope) == applyInstructions(OnLedger(r, l), envelope.instructions)

(***************************************************************************)
(* Two calls of createComplexBufferedTransaction by the same signer on the *)
(* same settings account.  Each call probes the ledger on its own (lines   *)
(* 152-159), every rpc read is a suspension point at which the other call  *)
(* or the submission of a planned create-buffer envelope can run.          *)
(***************************************************************************)
Assemblies == {1, 2}

ConcurrentStarts == {0, 254}

ConcurrentOccupied == {{}, Run(0, MaxRun), Run(254, MaxRun), {0, 2}}

\* the local variables of the slot probe of one call
AssemblyAt(bufferIndex) ==
  [pc |-> "fetchSettings", bufferIndex |-> bufferIndex, observed |-> 0, nextIndex |-> 0,
   transactionPda |-> 0, proposalPda |-> 0, chosenBufferIndex |-> 0,
   transactionBufferPda |-> 0, attempts |-> 0, createBufferTx |-> NotBuilt,
   createFromBufferTx |-> NotBuilt, submitted |-> "no", proposeSubmitted |-> "no"]

InitConcurrent ==
  /\ \E o \in ConcurrentOccupied : InitWith([DefaultInput EXCEPT !.occupied = o])
  /\ \E b1 \in ConcurrentStarts, b2 \in ConcurrentStarts :
       assemblies = [a \in Assemblies |-> AssemblyAt(IF a = 1 THEN b1 ELSE b2)]
  /\ wire = <<>>
  /\ ledger = NoRecords

callVars ==
  <<fn, pc, status, error, params, decoded, encoderOutput,
    settingsVars, chunkVars, probeVars, envelopeVars, lookupVars, result>>

mainVars == <<callVars, wire, ledger>>

ConcurrentFetchSettingsPerCall(a) ==
  /\ assemblies[a].pc = "fetchSettings"
  /\ LET index == nextTransactionIndex(rpc) + (a - 1)
     IN  assemblies' = [assemblies EXCEPT ![a].observed = rpc.transactionIndex,
                                          ![a].nextIndex = index,
                                          ![a].transactionPda = deriveTransactionPda(index),
                                          ![a].proposalPda = deriveProposalPda(index),
                                          ![a].pc = "start"]
  /\ UNCHANGED <<mainVars, rpc>>

\* lines 76-79: the counter of the settings account is read, the index and
\* the two record addresses follow from it
ConcurrentFetchSettings(a) ==
  /\ assemblies[a].pc = "fetchSettings"
  /\ LET index == nextTransactionIndex(rpc)
     IN  assemblies' = [assemblies EXCEPT ![a].observed = rpc.transactionIndex,
                                          ![a].nextIndex = index,
                                          ![a].transactionPda = deriveTransactionPda(index),
                                          ![a].proposalPda = deriveProposalPda(index),
                                          ![a].pc = "start"]
  /\ UNCHANGED <<mainVars, rpc>>

\* lines 152-153: the first candidate slot
ConcurrentStart(a) ==
  /\ assemblies[a].pc = "start"
  /\ LET idx == And0xff(assemblies[a].bufferIndex)
     IN  assemblies' = [assemblies EXCEPT ![a].chosenBufferIndex = idx,
                                          ![a].transactionBufferPda = deriveBufferPda(idx),
                                          ![a].attempts = 0,
                                          ![a].pc = "probe"]
  /\ UNCHANGED <<mainVars, rpc>>

\* lines 154-159: one pass of the probe loop
ConcurrentProbe(a) ==
  /\ assemblies[a].pc = "probe"
  /\ LET self == assemblies[a]
     IN  IF self.attempts < MaxAttempts /\ BufferAccountExists(self.transactionBufferPda)
         THEN assemblies' =
                [assemblies EXCEPT
                   ![a].chosenBufferIndex = NextBufferIndex(self.chosenBufferIndex),
                   ![a].transactionBufferPda =
                     deriveBufferPda(NextBufferIndex(self.chosenBufferIndex)),
                   ![a].attempts = self.attempts + 1]
         ELSE assemblies' = [assemblies EXCEPT ![a].pc = "createBuffer"]
  /\ UNCHANGED <<mainVars, rpc>>

\* lines 161-181: the create-buffer envelope for the chosen slot
ConcurrentCreateBuffer(a) ==
  /\ assemblies[a].pc = "createBuffer"
  /\ LET self == assemblies[a]
     IN  assemblies' =
           [assemblies EXCEPT
              ![a].createBufferTx = compileTransaction(
                 <<getCreateTransactionBufferInstruction(self.transactionBufferPda,
                     self.chosenBufferIndex, params.accountIndex,
                     sha256(encoderOutput), Len(encoderOutput),
                     chunksOf(encoderOutput)[1])>>),
              ![a].pc = "createFromBuffer"]
  /\ UNCHANGED <<mainVars, rpc>>

\* lines 236-284: materialize + propose + approve for the index read at the start
ConcurrentCreateFromBuffer(a) ==
  /\ assemblies[a].pc = "createFromBuffer"
  /\ LET self == assemblies[a]
     IN  assemblies' =
           [assemblies EXCEPT
              ![a].createFromBufferTx = compileTransaction(
                 createFromBufferStages(
                   getCreateTransactionFromBufferInstruction(self.transactionPda,
                     self.transactionBufferPda, And0xff(params.accountIndex),
                     And0xff(params.smartAccountPdaBump)),
                   getCreateProposalInstruction(self.proposalPda, self.nextIndex),
                   getApproveProposalInstruction(self.proposalPda, signer))),
              ![a].pc = "planned"]
  /\ UNCHANGED <<mainVars, rpc>>

\* the caller submits the create-buffer envelope: the ledger creates the
\* buffer account unless an account with that address exists already
SubmitCreateBuffer(a) ==
  /\ assemblies[a].pc = "planned" /\ assemblies[a].submitted = "no"
  /\ LET ix == assemblies[a].createBufferTx.instructions[1]
     IN  IF BufferAccountExists(ix.transactionBuffer)
         THEN /\ assemblies' = [assemblies EXCEPT ![a].submitted = "failed"]
              /\ UNCHANGED rpc
         ELSE /\ assemblies' = [assemblies EXCEPT ![a].submitted = "applied"]
              /\ rpc' = [rpc EXCEPT !.buffers = @ \cup {ix.bufferIndex}]
  /\ UNCHANGED mainVars

\* the caller submits the create-from-buffer envelope once its buffer exists
SubmitCreateFromBuffer(a) ==
  /\ assemblies[a].pc = "planned"
  /\ assemblies[a].submitted = "applied" /\ assemblies[a].proposeSubmitted = "no"
  /\ LET st == applyEnvelope(rpc, ledger, assemblies[a].createFromBufferTx)
     IN  IF st.ok
         THEN /\ rpc' = st.rpc /\ ledger' = st.ledger
              /\ assemblies' = [assemblies EXCEPT ![a].proposeSubmitted = "applied"]
         ELSE /\ UNCHANGED <<rpc, ledger>>
              /\ assemblies' = [assemblies EXCEPT ![a].proposeSubmitted = "failed"]
  /\ UNCHANGED <<callVars, wire>>

NextConcurrent ==
  \/ \E a \in Assemblies : ConcurrentFetchSettings(a)
  \/ \E a \in Assemblies : ConcurrentStart(a)
  \/ \E a \in Assemblies : ConcurrentProbe(a)
  \/ \E a \in Assemblies : ConcurrentCreateBuffer(a)
  \/ \E a \in Assemblies : ConcurrentCreateFromBuffer(a)
  \/ \E a \in Assemblies : SubmitCreateBuffer(a)
  \/ \E a \in Assemblies : SubmitCreateFromBuffer(a)

SpecConcurrent == InitConcurrent /\ [][NextConcurrent]_vars

(***************************************************************************)
(* The reading of the input bytes: the short-vec prefix and the signature  *)
(* section (printTransactionWireframeFromBytes) and the decode calls of    *)
(* the two assembly functions.                                             *)
(***************************************************************************)
MaxBytes == 6

\* 0x01 and 0x08 end a short-vec, 0x80 and 0x90 continue it
ByteSamples == {1, 8, 128, 144}

SignatureBytes == 64

\* b & 0x7f and b & 0x80 on a byte
And0x7f(b) == b % 128

And0x80(b) == ((b \div 128) % 2) * 128

\* x << shift on a 7-bit x: the low 32 bits of the product, read as int32
ShiftLeft32(x, shift) ==
  IF shift < 25
  THEN x * (2 ^ shift)
  ELSE LET kept == x % (2 ^ (32 - shift))
           top == 2 ^ (31 - shift)
       IN  IF kept >= top
           THEN (((kept - top) * (2 ^ shift)) - 2 ^ 30) - 2 ^ 30
           ELSE kept * (2 ^ shift)

\* the low 31 bits of an int32
Low31(a) == IF a < 0 THEN (a + 2 ^ 30) + 2 ^ 30 ELSE a

RECURSIVE OrBits(_, _, _)
OrBits(a, b, n) ==
  IF n = 0 THEN 0
  ELSE (IF a % 2 = 1 \/ b % 2 = 1 THEN 1 ELSE 0) + 2 * OrBits(a \div 2, b \div 2, n - 1)

\* a | b on int32 operands
BitOr32(a, b) ==
  LET low == OrBits(Low31(a), Low31(b), 31)
  IN  IF a < 0 \/ b < 0 THEN (low - 2 ^ 30) - 2 ^ 30 ELSE low

\* the while loop of decodeShortVec, entered with the locals len, size, shift
RECURSIVE decodeShortVecLoop(_, _, _, _, _)
decodeShortVecLoop(bytes, start, len, size, shift) ==
  IF ~(start + size < Len(bytes))
  THEN [len |-> len, size |-> size]
  ELSE LET b == bytes[start + size + 1]
           len2 == BitOr32(len, ShiftLeft32(And0x7f(b), shift))
       IN  IF And0x80(b) = 0 THEN [len |-> len2, size |-> size + 1]
           ELSE IF shift + 7 > 28 THEN [len |-> len2, size |-> size + 1]
           ELSE decodeShortVecLoop(bytes, start, len2, size + 1, shift + 7)

decodeShortVec(bytes, start) == decodeShortVecLoop(bytes, start, 0, 0, 0)

Filler(n, b) == [j \in 1 .. n |-> b]

\* a compiled message of the ledger: the three header bytes, one static
\* account, the blockhash and an empty instruction list
LegacyMessage(numSigners) ==
  <<numSigners, 0, 0, 1>> \o Filler(PUBKEY_SIZE, 11) \o Filler(32, 12) \o <<0>>

\* the same behind the version prefix, with an empty lookup list
V0Message(numSigners) == <<128>> \o LegacyMessage(numSigners) \o <<0>>

NativeMessages == {LegacyMessage(1), LegacyMessage(2), V0Message(1)}

\* a full signed transaction: signature count, the signatures, the message
SignedTransaction(sigCount, message) ==
  <<sigCount>> \o Filler(sigCount * SignatureBytes, 13) \o message

RECURSIVE BytesOfLen(_)
BytesOfLen(n) ==
  IF n = 0 THEN {<<>>}
  ELSE {<<b>> \o t : b \in ByteSamples, t \in BytesOfLen(n - 1)}

ShortVecInputs ==
  {[caller |-> "printer", kind |-> "bytes", messageBytes |-> bs, message |-> <<>>] :
     bs \in UNION {BytesOfLen(n) : n \in 0 .. MaxBytes}}

Callers == {"printer", "buffered", "complex"}

NumSignersOf(message) == IF message[1] = 128 THEN message[2] ELSE message[1]

TransactionInputs ==
  {[caller |-> c, kind |-> "signed",
    messageBytes |-> SignedTransaction(NumSignersOf(m), m), message |-> m] :
     c \in Callers, m \in NativeMessages}
  \cup
  {[caller |-> c, kind |-> "message", messageBytes |-> m, message |-> m] :
     c \in Callers, m \in NativeMessages}

WireInputs == ShortVecInputs \cup TransactionInputs

NotRead == [len |-> 0, size |-> 0]

WireAt(in) ==
  [pc |-> "start", caller |-> in.caller, kind |-> in.kind,
   messageBytes |-> in.messageBytes, message |-> in.message,
   prefix |-> NotRead, asTx |-> FALSE, handed |-> <<>>, outcome |-> ""]

InitWire ==
  /\ InitWith(DefaultInput)
  /\ assemblies = <<>>
  /\ \E in \in WireInputs : wire = WireAt(in)
  /\ ledger = NoRecords

\* getCompiledTransactionMessageDecoder().decode: a compiled message is
\* decoded, on other bytes the decoder throws or yields whatever they parse to
NativeDecoderOutcomes(bytes) ==
  IF bytes \in NativeMessages THEN {"ok"} ELSE {"ok", "throw"}

\* part_000 line 339: the signature count is read as a short-vec
PrinterPrefix ==
  /\ wire.caller = "printer" /\ wire.pc = "start"
  /\ wire' = [wire EXCEPT !.prefix = decodeShortVec(wire.messageBytes, 0),
                          !.pc = "candidate"]
  /\ UNCHANGED <<callVars, rpc, assemblies, ledger>>

\* part_000 line 341
IsCandidate(messageBytes, sigCount, lenSize) ==
  /\ sigCount >= 0
  /\ sigCount < 16
  /\ Len(messageBytes) > (lenSize + sigCount * SignatureBytes) + 3

\* part_000 lines 340-347: the bytes behind the signature section are tried
PrinterCandidate ==
  /\ wire.caller = "printer" /\ wire.pc = "candidate"
  /\ LET sigCount == wire.prefix.len
         lenSize == wire.prefix.size
     IN  IF IsCandidate(wire.messageBytes, sigCount, lenSize)
         THEN LET sigSection == lenSize + sigCount * SignatureBytes
                  candidate == subarray(wire.messageBytes, sigSection, Len(wire.messageBytes))
              IN  \E o \in NativeDecoderOutcomes(candidate) :
                    wire' = [wire EXCEPT !.handed = candidate,
                                         !.asTx = (o = "ok"),
                                         !.outcome = o,
                                         !.pc = IF o = "ok" THEN "done" ELSE "whole"]
         ELSE wire' = [wire EXCEPT !.pc = "whole"]
  /\ UNCHANGED <<callVars, rpc, assemblies, ledger>>

\* part_000 line 350: without a parsed candidate the whole input is decoded
PrinterWhole ==
  /\ wire.caller = "printer" /\ wire.pc = "whole"
  /\ \E o \in NativeDecoderOutcomes(wire.messageBytes) :
       wire' = [wire EXCEPT !.handed = wire.messageBytes, !.outcome = o, !.pc = "done"]
  /\ UNCHANGED <<callVars, rpc, assemblies, ledger>>

\* complexBufferedTransaction.ts line 82
BufferedDecode ==
  /\ wire.caller = "buffered" /\ wire.pc = "start"
  /\ LET innerTransactionBytes == wire.messageBytes
     IN  \E o \in NativeDecoderOutcomes(innerTransactionBytes) :
           wire' = [wire EXCEPT !.handed = innerTransactionBytes, !.outcome = o,
                                !.pc = "done"]
  /\ UNCHANGED <<callVars, rpc, assemblies, ledger>>

\* complexTransaction.ts lines 168-175
ComplexDecode ==
  /\ wire.caller = "complex" /\ wire.pc = "start"
  /\ LET compiledInnerMessage == [messageBytes |-> wire.messageBytes]
     IN  \E o \in NativeDecoderOutcomes(compiledInnerMessage.messageBytes) :
           wire' = [wire EXCEPT !.handed = compiledInnerMessage.messageBytes,
                                !.outcome = o, !.pc = "done"]
  /\ UNCHANGED <<callVars, rpc, assemblies, ledger>>

NextWire ==
  \/ PrinterPrefix
  \/ PrinterCandidate
  \/ PrinterWhole
  \/ BufferedDecode
  \/ ComplexDecode

SpecWire == InitWire /\ [][NextWire]_vars

(***************************************************************************)
(* The caller submits the envelopes of a returned plan in order.           *)
(***************************************************************************)
\* the envelopes of the returned plan, one per stage, in the order of submission
PlanOrder ==
  IF fn = "buffered"
  THEN result.createBufferTx \o <<result.createFromBufferTx, result.executeTx>>
  ELSE IF fn = "complex"
       THEN <<result.proposeTransactionBuffer, result.voteTransactionBuffer,
              result.executeTransactionBuffer>>
       ELSE <<result.transactionBuffer>>

SubmitEnvelope ==
  /\ status = "returned"
  /\ ledger.submitted < Len(PlanOrder)
  /\ LET position == ledger.submitted + 1
         st == applyEnvelope(rpc, ledger, PlanOrder[position])
     IN  IF st.ok
         THEN /\ rpc' = st.rpc
              /\ ledger' = [st.ledger EXCEPT !.submitted = position]
         ELSE /\ rpc' = rpc
              /\ ledger' = [ledger EXCEPT !.submitted = position,
                                          !.failed = @ \cup {position}]
  /\ UNCHANGED <<fn, pc, status, error, params, decoded, encoderOutput, settingsVars,
                 chunkVars, probeVars, envelopeVars, lookupVars, result, assemblies,
                 wire>>

NextSubmit ==
  \/ Next
  \/ SubmitEnvelope

SpecSubmit == Init /\ [][NextSubmit]_vars

(***************************************************************************)
(* Properties                                                             *)
(***************************************************************************)
\* the chunker has run
Chunked == fn = "buffered" /\ finalBufferHash # NoHash

\* C1: the chunks, concatenated in list order, are exactly the encoded
\* message, and no chunk is longer than CHUNK = 900 bytes.
C1_ChunksReassemble ==
  Chunked =>
    /\ Concat(chunks) = encoderOutput
    /\ \A j \in 1 .. Len(chunks) : Len(chunks[j]) <= 900

C1_Witness ==
  Chunked /\ Len(encoderOutput) = 2 * CHUNK - 1 /\ Len(chunks) = 2 /\ status = "returned"

\* C2: a message of length len gives ceil(len / 900) chunks, all but the last
\* of exactly 900 bytes and the last one non-empty; 1800 bytes give 900 + 900
\* and 901 bytes give 900 + 1.
C2_ChunkCount ==
  Chunked =>
    LET len == Len(encoderOutput)
        n == Len(chunks)
    IN  /\ n = (len + 899) \div 900
        /\ \A j \in 1 .. (n - 1) : Len(chunks[j]) = 900
        /\ n > 0 => Len(chunks[n]) > 0
        /\ len = 1800 => (n = 2 /\ Len(chunks[1]) = 900 /\ Len(chunks[2]) = 900)
        /\ len = 901 => (n = 2 /\ Len(chunks[1]) = 900 /\ Len(chunks[2]) = 1)

C2_Witness ==
  Chunked /\ Len(encoderOutput) = 901 /\ Len(chunks) = 2 /\ Len(extendTxs) = 1

\* the conversion to the smart-account message has happened
Converted == DOMAIN smartAccountMessage # DOMAIN NoMessage

\* a header a compiled message can carry: the fee payer is a writable signer
\* and the readonly counts fit their groups
ValidHeader ==
  LET h == decoded.header
  IN  /\ 1 <= h.numSignerAccounts /\ h.numSignerAccounts <= Len(decoded.staticAccounts)
      /\ h.numReadonlySignerAccounts < h.numSignerAccounts
      /\ h.numReadonlyNonSignerAccounts <= Len(decoded.staticAccounts) - h.numSignerAccounts

\* C3: after every conversion (in all three functions) of a message with
\* valid header counts numWritableSigners = numSigners - numReadonlySigners
\* and numWritableNonSigners = totalAccounts - numSigners -
\* numReadonlyNonSigners, over the header of the decoded message.
C3_CountsFollowHeader ==
  (Converted /\ ValidHeader) =>
    /\ smartAccountMessage.numWritableSigners =
         decoded.header.numSignerAccounts - decoded.header.numReadonlySignerAccounts
    /\ smartAccountMessage.numWritableNonSigners =
         Len(decoded.staticAccounts) - decoded.header.numSignerAccounts
           - decoded.header.numReadonlyNonSignerAccounts

\* the accounts of the execute instruction after its explicit ones
Trailing ==
  LET accounts == result.executeTransactionBuffer.instructions[1].accounts
  IN  SubSeq(accounts, 5, Len(accounts))

ComplexReturned == fn = "complex" /\ status = "returned"

RECURSIVE ResolvedBefore(_, _)
\* how many indexes the lookups before position t request
ResolvedBefore(lookups, t) ==
  IF t <= 1 THEN 0
  ELSE ResolvedBefore(lookups, t - 1) + Len(lookups[t - 1].writableIndexes)
         + Len(lookups[t - 1].readonlyIndexes)

C5_NoTableAccount ==
  ( /\ ComplexReturned
    /\ Len(decoded.staticAccounts) = 2
    /\ Len(params.addressTableLookups) = 1
    /\ Len(params.addressTableLookups[1].writableIndexes) = 1
    /\ Len(params.addressTableLookups[1].readonlyIndexes) = 1 )
  =>
    LET lookup == params.addressTableLookups[1]
    IN  /\ [j \in 1 .. Len(Trailing) |-> Trailing[j].address] =
             <<decoded.staticAccounts[1], decoded.staticAccounts[2],
               lookup.accountKey + 1 + lookup.writableIndexes[1],
               lookup.accountKey + 1 + lookup.readonlyIndexes[1]>>
        /\ \A j \in 1 .. Len(Trailing) : Trailing[j].address # lookup.accountKey

\* the slot probe is over
ProbeOver == Chunked /\ pc \notin {"probe"}

startIndex == params.bufferIndex % 256

\* C6: the probe examines startIndex, startIndex+1, ... (mod 256) in that
\* order and chooses the first index whose buffer account does not exist:
\* startIndex on an empty ledger, startIndex+3 when startIndex .. startIndex+2
\* are occupied.
C6_FirstFreeSlot ==
  fn = "buffered" =>
    /\ \A j \in 1 .. Len(probed) : probed[j] = 1000 + ((startIndex + j - 1) % 256)
    /\ (ProbeOver /\ rpc.buffers # 0 .. 255) =>
         /\ chosenBufferIndex \in (0 .. 255) \ rpc.buffers
         /\ transactionBufferPda = 1000 + chosenBufferIndex
         /\ \E d \in 0 .. 255 :
              /\ chosenBufferIndex = (startIndex + d) % 256
              /\ \A e \in 0 .. (d - 1) : (startIndex + e) % 256 \in rpc.buffers
              /\ Len(probed) = d + 1
         /\ rpc.buffers = {} => chosenBufferIndex = startIndex
         /\ ( /\ \A e \in 0 .. 2 : (startIndex + e) % 256 \in rpc.buffers
              /\ (startIndex + 3) % 256 \notin rpc.buffers )
            => chosenBufferIndex = (startIndex + 3) % 256

C6_Witness ==
  /\ ProbeOver /\ status = "returned"
  /\ params.bufferIndex = 254 /\ rpc.buffers = {254, 255, 0}
  /\ chosenBufferIndex = 1 /\ Len(probed) = 4

\* C7: when all 256 slot indexes are occupied the allocation fails with
\* NoFreeSlot after 256 probes: no plan is returned and no create-buffer
\* envelope is built for an occupied slot.
C7_NoFreeSlotFails ==
  (fn = "buffered" /\ rpc.buffers = 0 .. 255) =>
    /\ status # "returned"
    /\ createBufferTx = NotBuilt
    /\ (pc = "done" => (status = "threw" /\ error = "NoFreeSlot" /\ Len(probed) = 256))

\* C8: with accountIndex or smartAccountPdaBump outside [0, 255]
\* createComplexBufferedTransaction fails before any envelope of the plan
\* (create-buffer and extend-buffer included) is constructed.
C8_U8FailFast ==
  ( /\ fn = "buffered"
    /\ \/ params.accountIndex \notin 0 .. 255
       \/ params.smartAccountPdaBump \notin 0 .. 255 )
  =>
    /\ status # "returned"
    /\ createBufferTx = NotBuilt
    /\ extendTxs = <<>>
    /\ createFromBufferTx = NotBuilt
    /\ executeTx = NotBuilt

\* the indexes a lookup requests, writable and readonly
RequestedOf(lookup) ==
  {lookup.writableIndexes[j] : j \in 1 .. Len(lookup.writableIndexes)}
    \cup {lookup.readonlyIndexes[j] : j \in 1 .. Len(lookup.readonlyIndexes)}

\* C9: every requested index i >= floor((dataLength - 56) / 32) of an
\* existing table makes the run fail with an out-of-bounds error and no
\* address is produced for it (10 addresses, index 10: failure).
C9_IndexOutOfBoundsFails ==
  fn \in {"buffered", "complex"} =>
    \A t \in 1 .. Len(params.addressTableLookups) :
      LET lookup == params.addressTableLookups[t]
          dataLength == rpc.tables[lookup.accountKey]
      IN  dataLength >= 0 =>
            \A i \in RequestedOf(lookup) :
              i >= (dataLength - 56) \div 32 =>
                /\ status # "returned"
                /\ \A j \in 1 .. Len(resultAccounts) :
                     resultAccounts[j].address # lookup.accountKey + 1 + i

\* C10: in both flows that resolve lookup tables a referenced table whose
\* account does not exist makes the run fail; no plan is returned.
C10_MissingTableFails ==
  fn \in {"buffered", "complex"} =>
    \A t \in 1 .. Len(params.addressTableLookups) :
      rpc.tables[params.addressTableLookups[t].accountKey] < 0 =>
        /\ status # "returned"
        /\ (pc = "done" => status = "threw")

\* the header of the decoded inner message gives a writable count that is
\* negative or larger than the number of static accounts
HeaderInconsistent ==
  LET h == decoded.header
      total == Len(decoded.staticAccounts)
      writableSigners == h.numSignerAccounts - h.numReadonlySignerAccounts
      writableNonSigners == total - h.numSignerAccounts - h.numReadonlyNonSignerAccounts
  IN  \/ writableSigners < 0 \/ writableSigners > total
      \/ writableNonSigners < 0 \/ writableNonSigners > total

BufferedReturned == fn = "buffered" /\ status = "returned"

\* the names of the instructions an envelope carries, in order
StagesOf(envelope) ==
  [j \in 1 .. Len(envelope.instructions) |-> envelope.instructions[j].name]

\* C12: the plan of createComplexBufferedTransaction is in life-cycle order:
\* createBufferTx has one entry per chunk, entry 0 is create-buffer with
\* chunk 0 and entry i >= 1 is extend-buffer with chunk i; createFromBufferTx
\* carries materialize-from-buffer, create-proposal, approve in that order;
\* executeTx carries execute followed by close-buffer.
C12_PlanInLifeCycleOrder ==
  BufferedReturned =>
    LET plan == result.createBufferTx
    IN  /\ Len(plan) = Len(chunks)
        /\ StagesOf(plan[1]) = <<"createTransactionBuffer">>
        /\ plan[1].instructions[1].buffer = chunks[1]
        /\ \A i \in 2 .. Len(plan) :
             /\ StagesOf(plan[i]) = <<"extendTransactionBuffer">>
             /\ plan[i].instructions[1].buffer = chunks[i]
        /\ StagesOf(result.createFromBufferTx) =
             <<"createTransactionFromBuffer", "createProposal", "approveProposal">>
        /\ StagesOf(result.executeTx) = <<"executeTransaction", "closeTransactionBuffer">>

C12_Witness ==
  /\ BufferedReturned /\ Len(chunks) = 3 /\ Len(result.createBufferTx) = 3
  /\ result.createBufferTx[3].instructions[1].buffer = chunks[3]
  /\ chunks[3] # chunks[2]

\* the envelopes of a returned plan
PlanEnvelopes ==
  IF fn = "buffered"
  THEN {result.createBufferTx[j] : j \in 1 .. Len(result.createBufferTx)}
         \cup {result.createFromBufferTx, result.executeTx}
  ELSE IF fn = "complex"
       THEN {result.proposeTransactionBuffer, result.voteTransactionBuffer,
             result.executeTransactionBuffer}
       ELSE {result.transactionBuffer}

\* the envelopes of a returned plan that fuse materialize + propose + vote or
\* execute + close
FusedEnvelopes ==
  {e \in PlanEnvelopes :
     \/ StagesOf(e) = <<"createTransactionFromBuffer", "createProposal", "approveProposal">>
     \/ StagesOf(e) = <<"executeTransaction", "closeTransactionBuffer">>
     \/ StagesOf(e) = <<"executeTransaction", "closeTransaction">>}

\* C13: stages are fused into one envelope only when the fused envelope stays
\* within the per-envelope budget; a fusion that would exceed the budget is
\* emitted as separate envelopes, so no returned plan holds a fused
\* materialize+propose+vote or execute+close envelope above the budget.
C13_FusedWithinBudget ==
  (fn \in {"buffered", "complex"} /\ status = "returned") =>
    \A e \in FusedEnvelopes : messageBytesLength(e) <= EnvelopeBudget

\* C14: no returned plan contains an envelope larger than the per-envelope
\* budget of 1232 bytes; a run whose planned stage exceeds the budget fails
\* instead of returning.
C14_NoOversizedEnvelope ==
  (fn \in {"buffered", "complex"} /\ status = "returned") =>
    \A e \in PlanEnvelopes : messageBytesLength(e) <= 1232

\* the chunks the create-buffer and extend-buffer envelopes of the returned
\* plan carry, in plan order
CarriedChunks ==
  [j \in 1 .. Len(result.createBufferTx) |->
     result.createBufferTx[j].instructions[1].buffer]

RECURSIVE SumLen(_)
SumLen(ss) == IF ss = <<>> THEN 0 ELSE Len(Head(ss)) + SumLen(Tail(ss))

\* C15: the byte length and the digest in the create-buffer instruction are
\* those of the full encoded message: finalBufferSize is the sum of the
\* lengths of the chunks carried by create-buffer and all extend-buffer
\* envelopes, the digest is taken over exactly their concatenation, and all
\* of them address the same buffer account.
C15_DeclaredSizeAndDigest ==
  BufferedReturned =>
    LET createIx == result.createBufferTx[1].instructions[1]
    IN  /\ createIx.finalBufferSize = SumLen(CarriedChunks)
        /\ createIx.finalBufferHash.digestOf = Concat(CarriedChunks)
        /\ Concat(CarriedChunks) = encoderOutput
        /\ \A j \in 1 .. Len(result.createBufferTx) :
             result.createBufferTx[j].instructions[1].transactionBuffer =
               createIx.transactionBuffer

C15_Witness ==
  /\ BufferedReturned
  /\ Len(result.createBufferTx) = 3
  /\ result.createBufferTx[1].instructions[1].finalBufferSize = 2 * CHUNK + 1
  /\ Len(result.createBufferTx[3].instructions[1].buffer) = 1

\* an envelope is applied as a whole: the stage `stage` of the plan can take
\* effect without `other` succeeding only through an envelope that carries
\* `stage` and does not carry `other`
CanApplyWithout(stage, other) ==
  \E e \in PlanEnvelopes :
    /\ \E j \in 1 .. Len(e.instructions) : e.instructions[j].name = stage
    /\ \A j \in 1 .. Len(e.instructions) : e.instructions[j].name # other

\* C16: the returned plan of the buffered life cycle lets the buffer slot be
\* closed whether execute succeeds, fails or the flow is abandoned: closing
\* the buffer does not depend on the execute instruction succeeding.
C16_CloseIndependentOfExecute ==
  BufferedReturned =>
    /\ \E e \in PlanEnvelopes :
         \E j \in 1 .. Len(e.instructions) :
           /\ e.instructions[j].name = "closeTransactionBuffer"
           /\ e.instructions[j].transactionBuffer = transactionBufferPda
    /\ CanApplyWithout("closeTransactionBuffer", "executeTransaction")

\* the slot probe of call a is over
HasChosen(a) == assemblies[a].pc \in {"createBuffer", "createFromBuffer", "planned"}

\* C17: two buffered assemblies of the same actor on the same settings
\* account never choose the same buffer slot index (nor the same buffer
\* address), in any interleaving of their probes and of the submission of
\* their create-buffer envelopes.
C17_DistinctSlots ==
  \A a \in DOMAIN assemblies : \A b \in DOMAIN assemblies :
    (a # b /\ HasChosen(a) /\ HasChosen(b)) =>
      /\ assemblies[a].chosenBufferIndex # assemblies[b].chosenBufferIndex
      /\ assemblies[a].transactionBufferPda # assemblies[b].transactionBufferPda

\* the create-proposal instructions of the returned plan
ProposalInstructions ==
  UNION {{e.instructions[j] : j \in {m \in 1 .. Len(e.instructions) :
                                       e.instructions[m].name = "createProposal"}} :
           e \in PlanEnvelopes}

\* C18: the transaction index of a plan is the observed transactionIndex of
\* the settings account + 1, and the transaction-record address, the
\* proposal-record address and the transactionIndex argument of
\* create-proposal all come from that one index.
C18_IndexIsObservedPlusOne ==
  status = "returned" =>
    LET index == rpc.transactionIndex + 1
    IN  /\ nextIndex = index
        /\ result.transactionPda = 2000 + index
        /\ result.proposalPda = 3000 + index
        /\ fn \in {"complex", "pve"} => result.transactionIndex = index
        /\ ProposalInstructions # {}
        /\ \A ix \in ProposalInstructions :
             ix.transactionIndex = index /\ ix.proposal = 3000 + index

C18_Witness ==
  /\ status = "returned" /\ fn = "buffered"
  /\ rpc.transactionIndex = 7 /\ result.transactionPda = 2008
  /\ result.createFromBufferTx.instructions[2].transactionIndex = 8

\* the addresses of the accounts of the buffered execute instruction after
\* its explicit ones
BufferedTrailing ==
  LET accounts == result.executeTx.instructions[1].accounts
  IN  [j \in 1 .. (Len(accounts) - explicitParamsCount) |->
         accounts[explicitParamsCount + j].address]

IsStaticAccount(a) == \E j \in 1 .. Len(decoded.staticAccounts) : decoded.staticAccounts[j] = a

\* C19: the execute instruction of createComplexBufferedTransaction carries,
\* after its explicit accounts, every static account of the inner message in
\* original order and every lookup-table-resolved address.
C19_BufferedExecuteAccounts ==
  BufferedReturned =>
    /\ SelectSeq(BufferedTrailing, IsStaticAccount) = decoded.staticAccounts
    /\ \A t \in 1 .. Len(params.addressTableLookups) :
         LET lookup == params.addressTableLookups[t]
         IN  \A i \in RequestedOf(lookup) :
               (rpc.tables[lookup.accountKey] >= 0
                  /\ i < totalAddressesOf(rpc.tables[lookup.accountKey]))
               => \E j \in 1 .. Len(BufferedTrailing) :
                    BufferedTrailing[j] = lookup.accountKey + 1 + i

\* the converted message has been encoded
Encoded ==
  /\ fn \in {"buffered", "complex"}
  /\ Converted
  /\ ~InconsistentCounts(smartAccountMessage)

Terminated(bytes) == \E k \in 1 .. Len(bytes) : bytes[k] < 128

FirstClear(bytes) ==
  CHOOSE k \in 1 .. Len(bytes) :
    bytes[k] < 128 /\ \A j \in 1 .. (k - 1) : bytes[j] >= 128

PrefixRead == wire # <<>> /\ wire.caller = "printer" /\ wire.pc # "start"

\* C22: decodeShortVec never reads past the end of the input, and on input
\* with a byte whose high bit is clear it consumes the bytes up to and
\* including the first such byte (size is their number) and len is the sum
\* of (byte_i & 0x7f) * 2^(7i) over them, i.e. the base-128 digits of len
\* are the low seven bits of the consumed bytes.
C22_ShortVecExact ==
  PrefixRead =>
    LET bytes == wire.messageBytes
        r == wire.prefix
    IN  /\ r.size <= Len(bytes)
        /\ Terminated(bytes) =>
             /\ r.size = FirstClear(bytes)
             /\ r.len >= 0
             /\ \A i \in 1 .. 5 :
                  (r.len \div (128 ^ (i - 1))) % 128 =
                    (IF i <= r.size THEN And0x7f(bytes[i]) ELSE 0)

Decoded == wire # <<>> /\ wire.pc = "done"

\* C23: when the inner transaction bytes are a full signed transaction, the
\* native decoder is handed the input without its signature section (the
\* message alone); an already compiled message is handed over unchanged.
C23_SignatureSectionStripped ==
  Decoded =>
    /\ wire.kind = "signed" => wire.handed = wire.message
    /\ wire.kind = "message" => wire.handed = wire.messageBytes

\* C24: every returned plan reports the transaction-record address, the
\* proposal-record address and the transaction index it consumed, which is
\* the observed transactionIndex of the settings account + 1.
C24_PlanReportsIndex ==
  status = "returned" =>
    /\ {"transactionPda", "proposalPda", "transactionIndex"} \subseteq DOMAIN result
    /\ result.transactionPda = deriveTransactionPda(rpc.transactionIndex + 1)
    /\ result.proposalPda = deriveProposalPda(rpc.transactionIndex + 1)
    /\ result.transactionIndex = rpc.transactionIndex + 1

\* the static accounts within the trailing list of createComplexTransaction,
\* which follow the lookup table accounts
TrailingStatic ==
  SubSeq(Trailing, Len(params.addressTableLookups) + 1,
         Len(params.addressTableLookups) + Len(decoded.staticAccounts))

NamesOf(envelope) == [j \in DOMAIN envelope.instructions |-> envelope.instructions[j].name]

BufferInstructions ==
  LET envelopes == {createBufferTx, createFromBufferTx, executeTx}
                     \cup {extendTxs[j] : j \in 1 .. Len(extendTxs)}
  IN  UNION {{e.instructions[j] :
                j \in {m \in 1 .. Len(e.instructions) :
                         "transactionBuffer" \in DOMAIN e.instructions[m]}} :
             e \in envelopes}

\* C27: at every probe step and afterwards chosenBufferIndex is within 0..255
\* and transactionBufferPda is the address derived from exactly that index;
\* the bufferIndex encoded in create-buffer is the index from which the buffer
\* address used by create-buffer, every extend, materialize-from-buffer and
\* close-buffer was derived.
C27_SlotIndexAndAddressAgree ==
  Chunked =>
    /\ chosenBufferIndex \in 0 .. 255
    /\ transactionBufferPda = 1000 + chosenBufferIndex
    /\ \A ix \in BufferInstructions :
         /\ ix.transactionBuffer = 1000 + chosenBufferIndex
         /\ ix.name = "createTransactionBuffer" => ix.bufferIndex = chosenBufferIndex
    /\ BufferedReturned =>
         {"createTransactionBuffer", "createTransactionFromBuffer", "closeTransactionBuffer"}
           \subseteq {ix.name : ix \in BufferInstructions}

C27_Witness ==
  /\ BufferedReturned
  /\ params.bufferIndex = 254 /\ rpc.buffers = {254, 255, 0}
  /\ chosenBufferIndex = 1
  /\ result.createBufferTx[1].instructions[1].bufferIndex = 1
  /\ result.executeTx.instructions[2].transactionBuffer = 1001

\* the envelopes a caller submits who submits every envelope field of the
\* buffered result, in the order of the fields
EveryField ==
  result.createBufferTx \o <<result.createFromBufferTx, result.approveTx, result.executeTx>>

\* C28: in every result of createComplexBufferedTransaction approveTx is the
\* same envelope as createFromBufferTx, so submitting every field submits
\* materialize + propose + vote twice; closeBufferTx is never present.
C28_ApproveIsCreateFromBuffer ==
  BufferedReturned =>
    /\ result.approveTx = result.createFromBufferTx
    /\ Cardinality({j \in 1 .. Len(EveryField) :
                      StagesOf(EveryField[j]) =
                        <<"createTransactionFromBuffer", "createProposal", "approveProposal">>})
         = 2
    /\ "closeBufferTx" \notin DOMAIN result

C28_Witness ==
  /\ BufferedReturned
  /\ Len(result.createBufferTx) = 2
  /\ result.approveTx.instructions[1].name = "createTransactionFromBuffer"
  /\ result.approveTx.instructions[3].name = "approveProposal"

\* the approve-proposal instructions of the returned plan, by position
PlanApprovals ==
  {<<e, j>> \in (1 .. Len(PlanOrder)) \X (1 .. 4) :
     /\ j <= Len(PlanOrder[e].instructions)
     /\ PlanOrder[e].instructions[j].name = "approveProposal"}

\* C29: every plan holds exactly one approve-proposal, by the signer,
\* whatever threshold the settings account reports; so on a ledger whose
\* execute requires at least threshold approvals the plan, submitted in
\* order, reaches Executed only when the threshold is at most 1.
C29_OneApprovalPerPlan ==
  status = "returned" =>
    /\ Cardinality(PlanApprovals) = 1
    /\ \A a \in PlanApprovals :
         /\ PlanOrder[a[1]].instructions[a[2]].signer = signer
         /\ PlanOrder[a[1]].instructions[a[2]].proposal = result.proposalPda
    /\ result.transactionPda \in ledger.executed => rpc.threshold <= 1

C29_Witness ==
  /\ ComplexReturned /\ rpc.threshold = 2
  /\ ledger.submitted = 3 /\ ledger.failed = {3}
  /\ ledger.approvals = {<<result.proposalPda, signer>>}
  /\ ledger.executed = {}

C29_WitnessExecuted ==
  /\ BufferedReturned /\ rpc.threshold = 1
  /\ ledger.submitted = Len(PlanOrder) /\ ledger.failed = {}
  /\ result.transactionPda \in ledger.executed

\* call a has read the counter of the settings account
HasRead(a) == assemblies[a].pc # "fetchSettings"

====
